---- MODULE Spec2Model ----
\* Model of HandDetector (hand_tracking_module.py): one detector session with
\* its two cached fields (results, lmList) and its four operations.
\*
\* A normalized coordinate lm.x is the rational nx / Den; Den is a power of
\* two so that the float product lm.x * w is exact.  An image is its shape
\* (w, h) plus the number of drawing primitives applied to it (marks).
\* self.results is the engine's answer (multi_hand_landmarks, a sequence of
\* shape numbers), marked processed once findHands has stored one.
\* The distance math.hypot returns is the non-negative real whose square is
\* an integer; it is carried as that square (field sq).
EXTENDS Integers, Sequences, FiniteSets, TLC

VARIABLES results, lmList, ret

vars == <<results, lmList, ret>>

\* ---------------------------------------------------------------- bounds
Den       == 4    \* granularity of normalized coordinates
NumShapes == 3    \* number of distinct hand shapes the engine may report
MaxHands  == 2    \* most hands the engine reports for one image
MaxDim    == 2    \* largest image width

\* ------------------------------------------------------------ constants
NumLandmarks == 21
tipIds == <<4, 8, 12, 16, 20>>

\* ------------------------------------------------------ engine's outputs
\* Numerators run over -2 .. Den+1: the engine reports landmarks of a hand
\* partly outside the frame with coordinates below 0 or above 1.
Shape(k) ==
    [i \in 1..NumLandmarks |->
        [x |-> (((k - 1) * (i - 1) + k) % (Den + 4)) - 2,
         y |-> ((k * (i - 1) * (i - 1) + ((i - 1) \div 3) + 2 * k + (i - 1))
                    % (Den + 4)) - 2]]

\* the landmark objects the engine hands out, by shape number
Landmarks == [k \in 1..NumShapes |-> Shape(k)]

Hands == 1..NumShapes

\* multi_hand_landmarks of one engine run: no hand (<<>> stands for None),
\* one hand of any shape, or n hands of the shapes 1, 2, ...
Detections ==
    {<<>>} \cup {<<k>> : k \in Hands}
           \cup {[j \in 1..n |-> ((j - 1) % NumShapes) + 1] : n \in 2..MaxHands}

Images == {[w |-> d, h |-> d + 1, marks |-> 0] : d \in 2..MaxDim}

HandNos == (0 - MaxHands - 1) .. MaxHands

\* landmark indices tried by callers: both ends of the list, from both sides
LmIds ==
    {0 - NumLandmarks - 1, 0 - NumLandmarks, -1, 0, NumLandmarks - 1, NumLandmarks}

\* self.results before the first findHands call (None)
NoResults == [processed |-> FALSE, multi_hand_landmarks |-> <<>>]

\* the image given to findHands and findDistance, which only draw on it and
\* hand it back: its shape plays no part in them
Canvas == [w |-> 2, h |-> 3, marks |-> 0]

NoImg == [w |-> 0, h |-> 0, marks |-> 0]

\* the record of the last call: its arguments, what it returned or raised,
\* and for findPosition the length of the list cached when it was called
Call(op) ==
    [op |-> op, handNo |-> 0, p1 |-> 0, p2 |-> 0, draw |-> FALSE, imgIn |-> NoImg,
     raised |-> "none", img |-> NoImg, lmList |-> <<>>, bbox |-> <<>>,
     fingers |-> <<>>, sq |-> 0, coords |-> <<>>, before |-> 0]

\* ---------------------------------------------------------- Python values
\* seq[i] of a Python list: negative i counts from the end
PyInRange(s, i) == i >= 0 - Len(s) /\ i < Len(s)

PyIndex(s, i) == IF i >= 0 THEN s[i + 1] ELSE s[Len(s) + i + 1]

\* int(n / d) for d > 0: truncation toward zero
PyInt(n, d) == IF n >= 0 THEN n \div d ELSE 0 - ((0 - n) \div d)

RECURSIVE SeqMin(_)
SeqMin(s) ==
    IF Len(s) = 1 THEN s[1]
    ELSE LET m == SeqMin(Tail(s)) IN IF s[1] <= m THEN s[1] ELSE m

RECURSIVE SeqMax(_)
SeqMax(s) ==
    IF Len(s) = 1 THEN s[1]
    ELSE LET m == SeqMax(Tail(s)) IN IF s[1] >= m THEN s[1] ELSE m

\* math.hypot(dx, dy), carried as its square
Hypot(dx, dy) == dx * dx + dy * dy

\* ------------------------------------------------------------ operations
\* variant: floor instead of truncation toward zero
ToPixelFloor(lm, img) == <<(lm.x * img.w) \div Den, (lm.y * img.h) \div Den>>

\* cx, cy = int(lm.x * w), int(lm.y * h)
ToPixel(lm, img) == <<PyInt(lm.x * img.w, Den), PyInt(lm.y * img.h, Den)>>

\* the loop of findPosition over myHand.landmark, appending to self.lmList
Project(old, myHand, img) ==
    old \o [i \in 1..Len(myHand) |->
               <<i - 1, ToPixel(myHand[i], img)[1], ToPixel(myHand[i], img)[2]>>]

\* variant: the box in the order xmin, xmax, ymin, ymax
BBoxSwapped(lms) ==
    LET xList == [i \in 1..Len(lms) |-> lms[i][2]]
        yList == [i \in 1..Len(lms) |-> lms[i][3]]
    IN  <<SeqMin(xList), SeqMax(xList), SeqMin(yList), SeqMax(yList)>>

\* xmin, xmax = min(xList), max(xList); ymin, ymax = min(yList), max(yList)
BBox(lms) ==
    LET xList == [i \in 1..Len(lms) |-> lms[i][2]]
        yList == [i \in 1..Len(lms) |-> lms[i][3]]
    IN  <<SeqMin(xList), SeqMin(yList), SeqMax(xList), SeqMax(yList)>>

\* findHands: the new self.results and the returned image
findHands(det, img, draw) ==
    [results |-> [processed |-> TRUE, multi_hand_landmarks |-> det],
     img     |-> IF draw THEN [img EXCEPT !.marks = @ + Len(det)] ELSE img]

\* variant: findHands drops the cached list when no hand is detected
findHandsLmListClear(old, det) == IF det = <<>> THEN <<>> ELSE old

\* findHands leaves self.lmList alone
findHandsLmList(old, det) == old

\* variant: findPosition without the reset self.lmList = []
findPositionStale(res, old, img, handNo, draw) ==
    IF ~res.processed
    THEN [lmList |-> old, raised |-> "AttributeError", bbox |-> <<>>, img |-> NoImg]
    ELSE IF Len(res.multi_hand_landmarks) > 0 /\ handNo < Len(res.multi_hand_landmarks)
    THEN IF ~PyInRange(res.multi_hand_landmarks, handNo)
         THEN [lmList |-> old, raised |-> "IndexError", bbox |-> <<>>, img |-> NoImg]
         ELSE LET lms == Project(old, Landmarks[PyIndex(res.multi_hand_landmarks, handNo)], img)
              IN  [lmList |-> lms, raised |-> "none", bbox |-> BBox(lms),
                   img |-> IF draw THEN [img EXCEPT !.marks = @ + Len(lms) + 1] ELSE img]
    ELSE [lmList |-> old, raised |-> "none", bbox |-> <<>>, img |-> img]

\* findPosition: the new self.lmList, and what is returned or raised
findPosition(res, old, img, handNo, draw) ==
    IF ~res.processed
    THEN [lmList |-> <<>>, raised |-> "AttributeError", bbox |-> <<>>, img |-> NoImg]
    ELSE IF Len(res.multi_hand_landmarks) > 0 /\ handNo < Len(res.multi_hand_landmarks)
    THEN IF ~PyInRange(res.multi_hand_landmarks, handNo)
         THEN [lmList |-> <<>>, raised |-> "IndexError", bbox |-> <<>>, img |-> NoImg]
         ELSE LET lms == Project(<<>>, Landmarks[PyIndex(res.multi_hand_landmarks, handNo)], img)
              IN  [lmList |-> lms, raised |-> "none", bbox |-> BBox(lms),
                   img |-> IF draw THEN [img EXCEPT !.marks = @ + Len(lms) + 1] ELSE img]
    ELSE [lmList |-> <<>>, raised |-> "none", bbox |-> <<>>, img |-> img]

\* variant: non-strict comparisons
fingersUpNonStrict(lms) ==
    IF lms = <<>> THEN <<>>
    ELSE <<IF lms[tipIds[1] + 1][2] >= lms[tipIds[1]][2] THEN 1 ELSE 0>> \o
         [id \in 1..4 |->
             IF lms[tipIds[id + 1] + 1][3] <= lms[tipIds[id + 1] - 1][3] THEN 1 ELSE 0]

\* lms[k + 1] is self.lmList[k]; tipIds[id + 1] is tipIds[id]
fingersUp(lms) ==
    IF lms = <<>> THEN <<>>
    ELSE <<IF lms[tipIds[1] + 1][2] > lms[tipIds[1]][2] THEN 1 ELSE 0>> \o
         [id \in 1..4 |->
             IF lms[tipIds[id + 1] + 1][3] < lms[tipIds[id + 1] - 1][3] THEN 1 ELSE 0]

\* variant: the midpoint as first point plus half the truncated difference
MidPointFromFirst(x1, y1, x2, y2) == <<x1 + PyInt(x2 - x1, 2), y1 + PyInt(y2 - y1, 2)>>

\* variant: the y midpoint taken from the x coordinates
MidPointXOnly(x1, y1, x2, y2) == <<(x1 + x2) \div 2, (x1 + x2) \div 2>>

\* cx, cy = (x1 + x2) // 2, (y1 + y2) // 2 (floor division)
MidPoint(x1, y1, x2, y2) == <<(x1 + x2) \div 2, (y1 + y2) \div 2>>

\* variant: findDistance without the check for an empty list
findDistanceNoGuard(lms, p1, p2, img, draw) ==
    IF ~PyInRange(lms, p1) \/ ~PyInRange(lms, p2)
    THEN [raised |-> "IndexError", sq |-> 0, img |-> NoImg, coords |-> <<>>]
    ELSE LET x1 == PyIndex(lms, p1)[2]
             y1 == PyIndex(lms, p1)[3]
             x2 == PyIndex(lms, p2)[2]
             y2 == PyIndex(lms, p2)[3]
             c  == MidPoint(x1, y1, x2, y2)
         IN  [raised |-> "none", sq |-> Hypot(x2 - x1, y2 - y1),
              img |-> IF draw THEN [img EXCEPT !.marks = @ + 4] ELSE img,
              coords |-> <<x1, y1, x2, y2, c[1], c[2]>>]

findDistance(lms, p1, p2, img, draw) ==
    IF lms = <<>>
    THEN [raised |-> "none", sq |-> 0, img |-> img, coords |-> <<>>]
    ELSE IF ~PyInRange(lms, p1) \/ ~PyInRange(lms, p2)
    THEN [raised |-> "IndexError", sq |-> 0, img |-> NoImg, coords |-> <<>>]
    ELSE LET x1 == PyIndex(lms, p1)[2]
             y1 == PyIndex(lms, p1)[3]
             x2 == PyIndex(lms, p2)[2]
             y2 == PyIndex(lms, p2)[3]
             c  == MidPoint(x1, y1, x2, y2)
         IN  [raised |-> "none", sq |-> Hypot(x2 - x1, y2 - y1),
              img |-> IF draw THEN [img EXCEPT !.marks = @ + 4] ELSE img,
              coords |-> <<x1, y1, x2, y2, c[1], c[2]>>]

\* --------------------------------------------------------------- actions
Init ==
    /\ results = NoResults
    /\ lmList = <<>>
    /\ ret = Call("init")

FindHands ==
    \E det \in Detections, img \in {Canvas}, draw \in BOOLEAN :
        LET r == findHands(det, img, draw)
        IN  /\ results' = r.results
            /\ lmList' = findHandsLmList(lmList, det)
            /\ ret' = [Call("findHands") EXCEPT !.draw = draw, !.imgIn = img, !.img = r.img]

FindPosition ==
    \E img \in Images, handNo \in HandNos, draw \in BOOLEAN :
        LET r == findPosition(results, lmList, img, handNo, draw)
        IN  /\ lmList' = r.lmList
            /\ ret' = [Call("findPosition") EXCEPT
                          !.handNo = handNo, !.draw = draw, !.imgIn = img,
                          !.raised = r.raised, !.img = r.img,
                          !.lmList = IF r.raised = "none" THEN r.lmList ELSE <<>>,
                          !.bbox = r.bbox, !.before = Len(lmList)]
            /\ UNCHANGED results

FingersUp ==
    /\ ret' = [Call("fingersUp") EXCEPT !.fingers = fingersUp(lmList)]
    /\ UNCHANGED <<results, lmList>>

FindDistance ==
    \E p1 \in LmIds, p2 \in LmIds, img \in {Canvas}, draw \in BOOLEAN :
        LET r == findDistance(lmList, p1, p2, img, draw)
        IN  /\ ret' = [Call("findDistance") EXCEPT
                          !.p1 = p1, !.p2 = p2, !.draw = draw, !.imgIn = img,
                          !.raised = r.raised, !.sq = r.sq, !.img = r.img,
                          !.coords = r.coords]
            /\ UNCHANGED <<results, lmList>>

Next == FindHands \/ FindPosition \/ FingersUp \/ FindDistance

Spec == Init /\ [][Next]_vars

\* ---------------------------------------------------------------- claims
InRange == 0 .. (NumLandmarks - 1)

\* pixel coordinates of landmark k in the cached list
LmX(k) == lmList[k + 1][2]
LmY(k) == lmList[k + 1][3]

\* C1: with an empty cached list fingersUp returns the empty sequence and
\* findDistance returns (0, the image it was given, []) for every p1, p2 and
\* draw, and neither raises.
C1_SoftFailOnEmpty ==
    lmList = <<>> =>
        /\ ret.op = "fingersUp" => ret.raised = "none" /\ ret.fingers = <<>>
        /\ ret.op = "findDistance" =>
              /\ ret.raised = "none"
              /\ ret.sq = 0
              /\ ret.img = ret.imgIn
              /\ ret.coords = <<>>

C1_Witness ==
    /\ lmList = <<>>
    /\ results.processed
    /\ ret.op = "findDistance"
    /\ ret.p1 \notin InRange
    /\ ret.draw
    /\ ret.sq = 0

\* C2 (as claimed): after findHands, findPosition returns an empty list and
\* an empty box without raising whenever no hand is detected or handNo is
\* not in 0 .. (number of hands - 1), negative handNo included.
C2_OutOfRangeIsEmpty ==
    (/\ ret.op = "findPosition"
     /\ results.processed
     /\ ret.handNo \notin 0 .. (Len(results.multi_hand_landmarks) - 1))
    => /\ ret.raised = "none"
       /\ ret.lmList = <<>>
       /\ ret.bbox = <<>>
       /\ lmList = <<>>

\* C3 (as claimed): with a list cached, findDistance raises for every p1 or
\* p2 outside [0,20], negative indices included, and never returns a
\* distance and coordinates for such an index.
C3_OutOfRangeRaises ==
    (/\ ret.op = "findDistance"
     /\ lmList # <<>>
     /\ (ret.p1 \notin InRange \/ ret.p2 \notin InRange))
    => /\ ret.raised = "IndexError"
       /\ ret.coords = <<>>

\* the hand findPosition selected in the last call
SelectedHand == Landmarks[PyIndex(results.multi_hand_landmarks, ret.handNo)]

\* q is the rational n / Den rounded to the nearest integer, ties to even
IsRound(q, n) ==
    LET f == n \div Den
        r == n - f * Den
    IN  IF 2 * r < Den THEN q = f
        ELSE IF 2 * r > Den THEN q = f + 1
        ELSE q = IF f % 2 = 0 THEN f ELSE f + 1

\* q is the rational n / Den with its fractional part dropped
IsTruncation(q, n) ==
    IF n >= 0 THEN q * Den <= n /\ n < (q + 1) * Den
    ELSE (q - 1) * Den < n /\ n <= q * Den

\* C4 (as claimed): every entry of a returned non-empty list is
\* x = round(x_norm * width), y = round(y_norm * height).
C4_PixelsAreRounded ==
    (ret.op = "findPosition" /\ ret.lmList # <<>>) =>
        \A i \in 1..NumLandmarks :
            /\ IsRound(ret.lmList[i][2], SelectedHand[i].x * ret.imgIn.w)
            /\ IsRound(ret.lmList[i][3], SelectedHand[i].y * ret.imgIn.h)

\* C4 (amended): every entry [id, x, y] of a returned non-empty list has
\* id = its position, x = x_norm * width and y = y_norm * height, each with
\* its fractional part dropped (truncation toward zero).
C4_PixelsAreTruncated ==
    (ret.op = "findPosition" /\ ret.lmList # <<>>) =>
        /\ Len(ret.lmList) = NumLandmarks
        /\ \A i \in 1..NumLandmarks :
            /\ ret.lmList[i][1] = i - 1
            /\ IsTruncation(ret.lmList[i][2], SelectedHand[i].x * ret.imgIn.w)
            /\ IsTruncation(ret.lmList[i][3], SelectedHand[i].y * ret.imgIn.h)

\* a product with a fractional part of one half or more, and a negative one
C4_Witness ==
    /\ ret.op = "findPosition"
    /\ ret.lmList # <<>>
    /\ \E i \in 1..NumLandmarks :
          /\ SelectedHand[i].x > 0
          /\ 2 * ((SelectedHand[i].x * ret.imgIn.w) % Den) >= Den
    /\ \E i \in 1..NumLandmarks :
          /\ SelectedHand[i].y < 0
          /\ (SelectedHand[i].y * ret.imgIn.h) % Den # 0

\* C5: after a findPosition call the cached list is the list the call
\* returned: the selected hand's 21 landmarks for the image of this call, or
\* empty; nothing of the list cached before the call is left.
C5_CacheIsLastResult ==
    ret.op = "findPosition" =>
        /\ ret.raised = "none" => lmList = ret.lmList
        /\ \/ lmList = <<>>
           \/ /\ Len(lmList) = NumLandmarks
              /\ results.processed
              /\ PyInRange(results.multi_hand_landmarks, ret.handNo)
              /\ \A i \in 1..NumLandmarks :
                    lmList[i] = <<i - 1,
                                  PyInt(SelectedHand[i].x * ret.imgIn.w, Den),
                                  PyInt(SelectedHand[i].y * ret.imgIn.h, Den)>>
        /\ (results.processed /\ ret.handNo >= Len(results.multi_hand_landmarks)) => lmList = <<>>

\* a second call that replaced a different list, and one that found nothing
C5_Witness ==
    /\ ret.op = "findPosition"
    /\ ret.before = NumLandmarks
    /\ ret.raised = "none"
    /\ ret.lmList = <<>>
    /\ lmList = <<>>

\* C6: with a list cached fingersUp returns 5 flags in {0,1}; the thumb flag
\* is 1 iff x of landmark 4 > x of landmark 3; the flags of the other fingers
\* are 1 iff y of the tip (8, 12, 16, 20) < y of the joint (6, 10, 14, 18).
\* With no list cached it returns the empty sequence.
C6_FingerFlags ==
    ret.op = "fingersUp" =>
        IF lmList = <<>> THEN ret.fingers = <<>>
        ELSE /\ Len(ret.fingers) = 5
             /\ \A i \in 1..5 : ret.fingers[i] \in {0, 1}
             /\ ret.fingers[1] = 1 <=> LmX(4) > LmX(3)
             /\ ret.fingers[2] = 1 <=> LmY(8) < LmY(6)
             /\ ret.fingers[3] = 1 <=> LmY(12) < LmY(10)
             /\ ret.fingers[4] = 1 <=> LmY(16) < LmY(14)
             /\ ret.fingers[5] = 1 <=> LmY(20) < LmY(18)

\* a tie on the thumb and on a finger, next to a raised finger
C6_Witness ==
    /\ ret.op = "fingersUp"
    /\ lmList # <<>>
    /\ \E t \in {8, 12, 16, 20} : LmY(t) = LmY(t - 2)
    /\ \E i \in 2..5 : ret.fingers[i] = 1
    /\ \E i \in 2..5 : ret.fingers[i] = 0

\* C7: the box returned with a non-empty list contains every landmark, each
\* of its four bounds is attained by a landmark, and the box is empty
\* exactly when the list is.
C7_BoundingBox ==
    (ret.op = "findPosition" /\ ret.raised = "none") =>
        /\ ret.bbox = <<>> <=> ret.lmList = <<>>
        /\ ret.lmList # <<>> =>
              /\ Len(ret.bbox) = 4
              /\ \A i \in 1..Len(ret.lmList) :
                    /\ ret.bbox[1] <= ret.lmList[i][2]
                    /\ ret.lmList[i][2] <= ret.bbox[3]
                    /\ ret.bbox[2] <= ret.lmList[i][3]
                    /\ ret.lmList[i][3] <= ret.bbox[4]
              /\ \E i \in 1..Len(ret.lmList) : ret.lmList[i][2] = ret.bbox[1]
              /\ \E i \in 1..Len(ret.lmList) : ret.lmList[i][3] = ret.bbox[2]
              /\ \E i \in 1..Len(ret.lmList) : ret.lmList[i][2] = ret.bbox[3]
              /\ \E i \in 1..Len(ret.lmList) : ret.lmList[i][3] = ret.bbox[4]

C7_Witness ==
    /\ ret.op = "findPosition"
    /\ ret.lmList # <<>>
    /\ ret.bbox[1] < ret.bbox[3]
    /\ ret.bbox[2] < ret.bbox[4]
    /\ ret.bbox[3] # ret.bbox[4]

\* what C8 expects of findDistance(p1, p2) on the cached list
DistanceAsSpecified(r, p1, p2) ==
    /\ r.raised = "none"
    /\ r.coords = <<LmX(p1), LmY(p1), LmX(p2), LmY(p2),
                    (LmX(p1) + LmX(p2)) \div 2, (LmY(p1) + LmY(p2)) \div 2>>
    /\ r.sq = (LmX(p2) - LmX(p1)) * (LmX(p2) - LmX(p1))
              + (LmY(p2) - LmY(p1)) * (LmY(p2) - LmY(p1))

\* C8: with a list cached and p1, p2 in [0,20], findDistance returns
\* (x1, y1, x2, y2, midX, midY) with the cached coordinates of p1 and p2,
\* the floor midpoints, and a distance whose square is dx^2 + dy^2: for the
\* call just made, and for every pair on each list findPosition caches.
C8_DistanceAndMidpoint ==
    lmList # <<>> =>
        /\ (ret.op = "findDistance" /\ ret.p1 \in InRange /\ ret.p2 \in InRange)
              => DistanceAsSpecified(ret, ret.p1, ret.p2)
        /\ ret.op = "findPosition" =>
              \A p1 \in InRange, p2 \in InRange :
                 DistanceAsSpecified(findDistance(lmList, p1, p2, Canvas, ret.draw), p1, p2)

C8_Witness ==
    /\ ret.op = "findDistance"
    /\ lmList # <<>>
    /\ ret.p1 \in InRange
    /\ ret.p2 \in InRange
    /\ ret.coords[1] # ret.coords[3]
    /\ ret.coords[2] # ret.coords[4]
    /\ ret.coords[5] # ret.coords[6]
    /\ ret.sq > 0

\* C9: the distance and the midpoint findDistance returns are the same for
\* (p1, p2) and (p2, p1), for all p1, p2 in [0,20]: for the call just made,
\* and for every pair on the initial list and each list findPosition caches.
C9_DistanceSymmetric ==
    /\ ret.op \in {"init", "findPosition"} =>
          \A p1 \in InRange, p2 \in InRange :
             LET a == findDistance(lmList, p1, p2, Canvas, ret.draw)
                 b == findDistance(lmList, p2, p1, Canvas, ret.draw)
             IN  /\ a.sq = b.sq
                 /\ a.raised = b.raised
                 /\ a.coords # <<>> =>
                       a.coords[5] = b.coords[5] /\ a.coords[6] = b.coords[6]
    /\ (ret.op = "findDistance" /\ ret.p1 \in InRange /\ ret.p2 \in InRange) =>
          LET b == findDistance(lmList, ret.p2, ret.p1, ret.imgIn, ret.draw)
          IN  /\ ret.sq = b.sq
              /\ ret.coords # <<>> =>
                    ret.coords[5] = b.coords[5] /\ ret.coords[6] = b.coords[6]

C9_Witness ==
    /\ ret.op = "findDistance"
    /\ lmList # <<>>
    /\ ret.p1 \in InRange
    /\ ret.p2 \in InRange
    /\ ret.p1 # ret.p2
    /\ ret.coords[2] < ret.coords[4]
    /\ (ret.coords[2] + ret.coords[4]) % 2 = 1
    /\ ret.sq > 0

\* C10: a findHands call replaces results and leaves the cached list as it
\* was; fingersUp and findDistance leave both fields as they were and answer
\* from the list cached before the call.
C10_FrameEffect ==
    [][/\ ret'.op = "findHands" => lmList' = lmList
       /\ ret'.op \in {"fingersUp", "findDistance"} =>
             /\ lmList' = lmList
             /\ results' = results
       /\ ret'.op = "fingersUp" => ret'.fingers = fingersUp(lmList)
       /\ ret'.op = "findDistance" =>
             ret'.coords = findDistance(lmList, ret'.p1, ret'.p2, ret'.imgIn, ret'.draw).coords
      ]_vars

\* findHands(B) found no hand, and fingersUp still answers from the old list
C10_Witness ==
    /\ results.processed
    /\ results.multi_hand_landmarks = <<>>
    /\ lmList # <<>>
    /\ ret.op = "fingersUp"
    /\ Len(ret.fingers) = 5

====
